---- MODULE Spec2Model ----
(***************************************************************************)
(* A model of snapshot-runner (src/src/lib.rs): the fixture parser, the    *)
(* per-fixture executor, the comparator with its sibling patch file, the   *)
(* aggregator's tally, and the caller/worker pair of test_snapshots.       *)
(*                                                                         *)
(* Texts are TLA+ strings; offsets are 0-based byte offsets as in the      *)
(* source (all modelled texts are ASCII, so bytes and characters agree).   *)
(* Carriage returns are left out of the modelled alphabet.                 *)
(***************************************************************************)
EXTENDS Integers, Sequences, FiniteSets, TLC

(***************************************************************************)
(* Strings                                                                 *)
(***************************************************************************)

\* &s[from..to] of Rust: the bytes at offsets from .. to-1.
Slice(s, from, to) == SubSeq(s, from + 1, to)

\* The byte at offset i, as a one-character string.
At(s, i) == SubSeq(s, i + 1, i + 1)

\* Runs of ASCII characters in code order, each with the code of its first
\* character (the characters a TLA+ string cannot hold are left out).
AsciiRuns == << [base |-> 32, chars |-> " !"],
               [base |-> 35, chars |-> "#$%&"],
               [base |-> 40, chars |-> "()*+,-./0123456789:;<=>?@ABCDEFGHIJKLMNOPQRSTUVWXYZ["],
               [base |-> 93, chars |-> "]^_"],
               [base |-> 97, chars |-> "abcdefghijklmnopqrstuvwxyz{|}~"],
               [base |-> 9,  chars |-> "\t\n"] >>

\* The character of each modelled ASCII code.
AsciiChar == [n \in UNION {r.base..(r.base + Len(r.chars) - 1) : r \in {AsciiRuns[k] : k \in DOMAIN AsciiRuns}} |->
                LET r == CHOOSE r \in {AsciiRuns[k] : k \in DOMAIN AsciiRuns} :
                            n \in r.base..(r.base + Len(r.chars) - 1)
                IN SubSeq(r.chars, n - r.base + 1, n - r.base + 1)]

\* The ASCII code of each character the texts may hold.
AsciiCode == [c \in {AsciiChar[n] : n \in DOMAIN AsciiChar} |->
                CHOOSE n \in DOMAIN AsciiChar : AsciiChar[n] = c]

\* [[:alpha:]] of the regex crate: the ASCII letters.
IsAlpha(c) == \/ (AsciiCode[c] >= 65 /\ AsciiCode[c] <= 90)
              \/ (AsciiCode[c] >= 97 /\ AsciiCode[c] <= 122)

\* \s of the regex crate, on the modelled alphabet.
IsSpace(c) == c \in {" ", "\t", "\n"}

\* One character of the class [[:alpha:]\.-_] : a letter, or a character of
\* the range from '.' (code 46) to '_' (code 95).  The '-' between the
\* escaped dot and the underscore makes a range; '-' itself (code 45) is
\* outside it, digits, '[' and ']' are inside.
InNameClass(c) == IsAlpha(c) \/ (AsciiCode[c] >= 46 /\ AsciiCode[c] <= 95)

RECURSIVE ToUpper(_)
\* str::to_uppercase on ASCII text.
ToUpper(s) ==
    IF s = "" THEN ""
    ELSE LET c == SubSeq(s, 1, 1)
             u == IF AsciiCode[c] >= 97 /\ AsciiCode[c] <= 122
                  THEN AsciiChar[AsciiCode[c] - 32]
                  ELSE c
         IN u \o ToUpper(SubSeq(s, 2, Len(s)))

RECURSIVE LeadingSpaces(_)
\* The number of whitespace characters s starts with.
LeadingSpaces(s) ==
    IF s # "" /\ IsSpace(SubSeq(s, 1, 1))
    THEN 1 + LeadingSpaces(SubSeq(s, 2, Len(s)))
    ELSE 0

RECURSIVE TrailingSpaces(_)
\* The number of whitespace characters s ends with.
TrailingSpaces(s) ==
    IF s # "" /\ IsSpace(SubSeq(s, Len(s), Len(s)))
    THEN 1 + TrailingSpaces(SubSeq(s, 1, Len(s) - 1))
    ELSE 0

\* str::trim.
Trim(s) ==
    IF LeadingSpaces(s) = Len(s) THEN ""
    ELSE Slice(s, LeadingSpaces(s), Len(s) - TrailingSpaces(s))

\* str::starts_with.
StartsWith(s, p) == Len(s) >= Len(p) /\ SubSeq(s, 1, Len(p)) = p

(***************************************************************************)
(* Lines and headers                                                       *)
(***************************************************************************)

RECURSIVE LineEnd(_, _)
\* The offset of the first line feed of s at or after offset i, or Len(s).
LineEnd(s, i) ==
    IF i >= Len(s) \/ At(s, i) = "\n" THEN i ELSE LineEnd(s, i + 1)

RECURSIVE LinesFrom(_, _)
\* str::lines from offset i on: each line as its start offset and its
\* length without the line feed; an empty rest yields no further line.
LinesFrom(s, i) ==
    IF i >= Len(s) THEN << >>
    ELSE LET e == LineEnd(s, i)
         IN <<[off |-> i, len |-> e - i]>> \o LinesFrom(s, e + 1)

\* entry_file.lines(), each line with the offset that offset() computes for it.
Lines(s) == LinesFrom(s, 0)

\* The text of a line.
LineText(s, l) == Slice(s, l.off, l.off + l.len)

\* Whether ^\s*\[([[:alpha:]\.-_]+)\]\s*$ matches the line: whitespace, '[',
\* one or more class characters, ']', whitespace.  No class character is
\* whitespace, so the '[' is the first and the closing ']' the last
\* character that is not whitespace.
SectionRegexMatches(line) ==
    LET lead  == LeadingSpaces(line)
        trail == TrailingSpaces(line)
        last  == Len(line) - trail - 1
    IN /\ lead < Len(line)
       /\ At(line, lead) = "["
       /\ last >= lead + 2
       /\ At(line, last) = "]"
       /\ \A k \in (lead + 1)..(last - 1) : InNameClass(At(line, k))

\* captures.get(1): the name between the brackets.
CapturedName(line) ==
    Slice(line, LeadingSpaces(line) + 1, Len(line) - TrailingSpaces(line) - 1)

(***************************************************************************)
(* The section parser of test_snapshots_inner                              *)
(***************************************************************************)

\* Option::None for current_section.
NoSection == [name |-> "", from |-> 0, from_inner |-> 0, to |-> 0,
              last_line |-> << >>, line |-> 0, open |-> FALSE]

\* The CurrentSection opened at a header line; idx is the 0-based line_idx
\* and input_len the number of lines of the fixture.
OpenSection(name, off, len, input_len, idx) ==
    [name |-> name, from |-> off, from_inner |-> off + len, to |-> off + len,
     last_line |-> << >>, line |-> input_len + idx, open |-> TRUE]

\* A variant of CloseAtHeader that records no last line.
CloseAtHeaderWithoutLastLine(cur, off, len) == [cur EXCEPT !.to = off]

\* The open section closed by the header line at offset off of length len.
CloseAtHeader(cur, off, len) ==
    [cur EXCEPT !.to = off, !.last_line = <<off, off + len>>]

\* A variant of CloseAtEnd that leaves the end where the header line ended.
CloseAtEndKeepingTo(cur, s) == cur

\* The still open section closed at the end of the text.
CloseAtEnd(cur, s) == [cur EXCEPT !.to = Len(s)]

RECURSIVE ParseFrom(_, _, _, _, _)
\* The loop over the lines from the k-th on (k counts from 1): the sections
\* closed so far, in the order they are inserted into the map, then the
\* one closed after the loop.
ParseFrom(s, lines, k, cur, closed) ==
    IF k > Len(lines)
    THEN IF cur.open THEN Append(closed, CloseAtEnd(cur, s)) ELSE closed
    ELSE LET l    == lines[k]
             text == LineText(s, l)
         IN IF SectionRegexMatches(text)
            THEN ParseFrom(s, lines, k + 1,
                           OpenSection(CapturedName(text), l.off, l.len, Len(lines), k - 1),
                           IF cur.open
                           THEN Append(closed, CloseAtHeader(cur, l.off, l.len))
                           ELSE closed)
            ELSE ParseFrom(s, lines, k + 1, cur, closed)

\* Every section of the text as closed by the parser, in insertion order.
ClosedSections(s) == ParseFrom(s, Lines(s), 1, NoSection, << >>)

\* CurrentSection::into_entry: an Expected section keeps its header line,
\* an Input section starts where the header line's text ends.
IntoEntry(cs, source) ==
    LET expected == StartsWith(cs.name, "expected.")
        from     == IF expected THEN cs.from ELSE cs.from_inner
    IN [kind         |-> IF expected THEN "Expected" ELSE "Input",
        section_name |-> cs.name,
        section      |-> Slice(source, from, cs.to),
        line         |-> cs.line,
        last_line    |-> IF cs.last_line = << >>
                         THEN Slice(source, cs.to, cs.to)
                         ELSE Slice(source, cs.last_line[1], cs.last_line[2])]

\* HashMap::insert.
MapInsert(m, k, v) == [n \in DOMAIN m \cup {k} |-> IF n = k THEN v ELSE m[n]]

RECURSIVE InsertAll(_, _, _, _)
\* The sections map after the insertions from the k-th closed section on.
InsertAll(m, closed, k, source) ==
    IF k > Len(closed) THEN m
    ELSE InsertAll(MapInsert(m, closed[k].name, IntoEntry(closed[k], source)),
                   closed, k + 1, source)

\* The sections map of a fixture text: name -> Entry, a later section of
\* the same name replacing the earlier one.
Sections(s) == InsertAll(<< >>, ClosedSections(s), 1, s)

(***************************************************************************)
(* Paths and the sibling patch file                                        *)
(***************************************************************************)

RECURSIVE LastDot(_, _)
\* The offset of the last '.' of name before offset i, or -1.
LastDot(name, i) ==
    IF i = 0 THEN -1
    ELSE IF At(name, i - 1) = "." THEN i - 1 ELSE LastDot(name, i - 1)

\* A variant of SetExtension that appends the extension to the whole name.
SetExtensionAppending(name, ext) == name \o "." \o ext

\* PathBuf::set_extension on the file name: the stem is the name up to its
\* last '.', or the whole name when it has no '.' after its first
\* character; the new name is the stem, '.', and the extension.
SetExtension(name, ext) ==
    LET dot  == LastDot(name, Len(name))
        stem == IF dot <= 0 THEN name ELSE Slice(name, 0, dot)
    IN IF ext = "" THEN stem ELSE stem \o "." \o ext

\* A variant of NewSnapPath that puts every sibling in the root directory of
\* the fixtures.
NewSnapPathInRoot(path, section_name) ==
    [dir |-> "tests", name |-> SetExtension(path.name, section_name \o ".new")]

\* new_snap_path of assert_section: the fixture's path with its extension
\* replaced by the entry's section name followed by ".new".
NewSnapPath(path, section_name) ==
    [dir |-> path.dir, name |-> SetExtension(path.name, section_name \o ".new")]

\* What comparison.patch(...) writes: the two labels, the line offset and
\* the two texts whose line difference the patch describes.
Patch(old, new, offset, expected, actual) ==
    [kind |-> "patch", old |-> old, new |-> new, offset |-> offset,
     expected |-> expected, actual |-> actual]

\* A sibling file left by an earlier run.
StaleFile == [kind |-> "stale", old |-> "", new |-> "", offset |-> 0,
              expected |-> "", actual |-> ""]

\* A sibling file that was created and then not written.
EmptyFile == [kind |-> "empty", old |-> "", new |-> "", offset |-> 0,
              expected |-> "", actual |-> ""]

\* File::create and write!: the file system is path -> content, for the
\* paths that exist.
FsWrite(files, path, content) ==
    [q \in DOMAIN files \cup {path} |-> IF q = path THEN content ELSE files[q]]

\* A variant of FsRemove that deletes nothing.
FsRemoveNothing(files, path) == files

\* std::fs::remove_file.
FsRemove(files, path) == [q \in DOMAIN files \ {path} |-> files[q]]

\* How the operating system answers the file operations of one fixture.
IoOutcomes == {"ok", "create_fail", "write_fail", "remove_fail"}

\* A variant of TextsDiffer that ignores trailing whitespace.
TextsDifferTrimmed(expected, actual) == Trim(expected) # Trim(actual)

\* expected != actual of assert_section.
TextsDiffer(expected, actual) == expected # actual

\* assert_section: the result ("ok", "failed" from bail!, "io" from a
\* propagated file error) and the file system it leaves.
AssertSection(entry, path, actual, files, io) ==
    LET new_snap_path == NewSnapPath(path, entry.section_name)
        expected      == entry.section \o entry.last_line
    IN IF TextsDiffer(expected, actual)
       THEN IF io = "create_fail"
            THEN [res |-> "io", fs |-> files]
            ELSE IF io = "write_fail"
            THEN [res |-> "io", fs |-> FsWrite(files, new_snap_path, EmptyFile)]
            ELSE [res |-> "failed",
                  fs  |-> FsWrite(files, new_snap_path,
                                  Patch(path.name, new_snap_path.name, entry.line,
                                        expected, actual))]
       ELSE IF new_snap_path \in DOMAIN files
            THEN IF io = "remove_fail"
                 THEN [res |-> "io", fs |-> files]
                 ELSE [res |-> "ok", fs |-> FsRemove(files, new_snap_path)]
            ELSE [res |-> "ok", fs |-> files]

(***************************************************************************)
(* SnapshotInputs and the functions under test                             *)
(***************************************************************************)

\* SnapshotInputs::get_str: the text of the section, or the missing-section
\* error.
GetStr(inputs, key) ==
    IF key \in DOMAIN inputs THEN [ok |-> TRUE, val |-> inputs[key]]
    ELSE [ok |-> FALSE, val |-> ""]

\* Whether the text is a JSON unsigned number, as serde_json reads it:
\* digits without a leading zero, whitespace around them allowed.
IsJsonNumber(text) ==
    LET t == Trim(text)
    IN /\ t # ""
       /\ \A k \in 0..(Len(t) - 1) : AsciiCode[At(t, k)] >= 48 /\ AsciiCode[At(t, k)] <= 57
       /\ (Len(t) > 1 => At(t, 0) # "0")

\* SnapshotInputs::get_json::<u64>: the number (as its digits), the
\* missing-section error or the decode error.
GetJson(inputs, key) ==
    IF key \in DOMAIN inputs /\ IsJsonNumber(inputs[key])
    THEN [ok |-> TRUE, val |-> Trim(inputs[key])]
    ELSE [ok |-> FALSE, val |-> ""]

Returned(out) == [kind |-> "ret", out |-> out]
Panicked == [kind |-> "panic", out |-> ""]
Hangs == [kind |-> "hang", out |-> ""]

\* The functions a caller passes as f, each unwrapping what SnapshotInputs
\* returns: the uppercased text of input a, the same of the trimmed text,
\* the number decoded from input a, a function that always panics and a
\* function that never returns.
Futs == {"upper", "trim_upper", "json", "panic", "hang"}

\* f(&inputs): what the call does.
RunFut(f, inputs) ==
    CASE f = "upper" ->
            IF GetStr(inputs, "a").ok
            THEN Returned(ToUpper(GetStr(inputs, "a").val)) ELSE Panicked
      [] f = "trim_upper" ->
            IF GetStr(inputs, "a").ok
            THEN Returned(ToUpper(Trim(GetStr(inputs, "a").val))) ELSE Panicked
      [] f = "json" ->
            IF GetJson(inputs, "a").ok
            THEN Returned(GetJson(inputs, "a").val) ELSE Panicked
      [] f = "panic" -> Panicked
      [] f = "hang" -> Hangs

(***************************************************************************)
(* The fixtures and the bounds                                             *)
(***************************************************************************)

\* The most fixtures one batch enumerates.
MaxFixtures == 2

\* The most calls of test_snapshots in one behaviour.
MaxRuns == 2

\* The longest text the parser is applied to on its own.
MaxTextLen == 4

\* The most lines of a text built from whole lines.
MaxLines == 4

\* section_name of test_snapshots: the test identifier.
ID == "fmt"

\* section_name of test_snapshots_inner: the name of the Expected section.
ExpectedName == "expected." \o ID

\* The fixtures glob may enumerate under tests/, each with its text and
\* with the path where a sibling patch file of an earlier run may lie.
Pool == <<
    [path    |-> [dir |-> "tests", name |-> "hello.snap"],
     text    |-> "[a]\nhello\n[expected.fmt]\nHELLO\n",
     sibling |-> [dir |-> "tests", name |-> "hello.expected.fmt.new"]],
    [path    |-> [dir |-> "tests/sub", name |-> "skip.snap"],
     text    |-> "[a]\nhi\n[expected.other]\nHI\n\n",
     sibling |-> [dir |-> "tests/sub", name |-> "skip.expected.fmt.new"]],
    [path    |-> [dir |-> "tests", name |-> "nob.snap"],
     text    |-> "[b]\nhi\n\n[expected.fmt]\nHI\n\n",
     sibling |-> [dir |-> "tests", name |-> "nob.expected.fmt.new"]],
    [path    |-> [dir |-> "tests/sub", name |-> "num.v.snap"],
     text    |-> "[expected.fmt]\n12\n\n[a]\n12\n",
     sibling |-> [dir |-> "tests/sub", name |-> "num.v.expected.fmt.new"]] >>

\* The sections map of each fixture of the pool.
PoolSections == [i \in DOMAIN Pool |-> Sections(Pool[i].text)]

RECURSIVE Enumerations(_)
\* The orders in which glob may enumerate up to n distinct fixtures.
Enumerations(n) ==
    IF n = 0 THEN {<< >>}
    ELSE LET shorter == Enumerations(n - 1)
             longest == {c \in shorter : Len(c) = n - 1}
         IN shorter \cup
            {Append(e[1], e[2]) :
                e \in {d \in longest \X DOMAIN Pool :
                          \A k \in DOMAIN d[1] : d[1][k] # d[2]}}

\* The characters of the texts the parser is applied to on its own.
ParserAlphabet == {"[", "]", "a", "1", "-", " ", "\n"}

RECURSIVE Texts(_)
\* Every text of at most n characters of the parser alphabet.
Texts(n) ==
    IF n = 0 THEN {""}
    ELSE Texts(n - 1) \cup {t \o c : t \in {u \in Texts(n - 1) : Len(u) = n - 1},
                                      c \in ParserAlphabet}

\* The lines of the longer fixture texts the parser is applied to: two
\* Input headers, one with whitespace around it, an Expected header, a line
\* of content and an empty line.
LinePool == {"[a]", " [b] ", "[expected.a]", "x", ""}

RECURSIVE TerminatedLines(_)
\* Every text of at most n lines of the pool, each ended by a line feed.
TerminatedLines(n) ==
    IF n = 0 THEN {""}
    ELSE TerminatedLines(n - 1) \cup
         {t \o l \o "\n" : t \in TerminatedLines(n - 1), l \in LinePool}

\* Every text of at most n lines of the pool, the last line with or without
\* its line feed.
LineTexts(n) ==
    IF n = 0 THEN {""}
    ELSE TerminatedLines(n) \cup
         {t \o l : t \in TerminatedLines(n - 1), l \in LinePool}

(***************************************************************************)
(* State                                                                   *)
(***************************************************************************)

VARIABLES
    batch,          \* the fixtures in the order glob enumerates them (Pool indices)
    fut,            \* the function under test the caller passed
    fs,             \* the sibling files that exist, with their contents
    fs0,            \* the file system before the first run
    runs,           \* the calls of test_snapshots so far
    cpc,            \* where the caller is in test_snapshots
    waitRes,        \* what signal_end.wait_timeout_ms returned
    callerResult,   \* what test_snapshots returned
    handledAtReturn, \* how many fixtures the worker had handled when it did
    startPulsed,    \* pulse_start was pulsed
    endPulsed,      \* pulse_end was pulsed
    wpc,            \* where the worker is
    idx,            \* the position of the worker's loop in batch (from 1)
    successes,      \* the tally of test_snapshots_inner
    processed,
    skipped,
    section,        \* the Expected entry of the fixture in hand
    inputs,         \* the SnapshotInputs of the fixture in hand
    output,         \* what f returned for the fixture in hand
    wresult,        \* what test_snapshots_inner returned
    summary,        \* the summary line printed, as <<processed, failed, skipped>>
    outcomes,       \* the branch each handled fixture took, in order
    everMatched,    \* the fixtures some run found Matched
    ptext,          \* the text the parser is applied to on its own
    pclosed,        \* the sections it closed
    ppc             \* whether it ran

vars == <<batch, fut, fs, fs0, runs, cpc, waitRes, callerResult,
          handledAtReturn, startPulsed, endPulsed, wpc, idx, successes, processed, skipped, section, inputs,
          output, wresult, summary, outcomes, everMatched, ptext, pclosed, ppc>>

callerVars == <<cpc, waitRes, callerResult, handledAtReturn>>
workerVars == <<wpc, idx, successes, processed, skipped, section, inputs,
                output, wresult, summary, outcomes>>
parserVars == <<ptext, pclosed, ppc>>
inputVars  == <<batch, fut, fs0>>

\* No Expected entry in hand.
NoEntry == [kind |-> "None", section_name |-> "", section |-> "", line |-> 0,
            last_line |-> ""]

\* The fixture at position i of the batch.
Fixture(i) == Pool[batch[i]]

\* The state of one call of test_snapshots before it spawns the worker,
\* stated of the caller's, the signals' and the worker's variables.
FreshRun(c, w, r, h, sp, ep, wp, i, su, pr, sk, se, inp, out, wr, sm, oc) ==
    /\ c = "spawn" /\ w = "none" /\ r = "none" /\ h = -1
    /\ sp = FALSE /\ ep = FALSE
    /\ wp = "unborn" /\ i = 1
    /\ su = 0 /\ pr = 0 /\ sk = 0
    /\ se = NoEntry /\ inp = << >> /\ out = ""
    /\ wr = "none" /\ sm = << >> /\ oc = << >>

Init ==
    /\ batch \in Enumerations(MaxFixtures)
    /\ fut \in Futs
    /\ \E stale \in SUBSET {Pool[batch[i]].sibling : i \in DOMAIN batch} :
          fs = [q \in stale |-> StaleFile]
    /\ fs0 = fs
    /\ runs = 1
    /\ everMatched = {}
    /\ FreshRun(cpc, waitRes, callerResult, handledAtReturn, startPulsed, endPulsed, wpc, idx,
                successes, processed, skipped, section, inputs, output, wresult,
                summary, outcomes)
    /\ ptext = "" /\ pclosed = << >> /\ ppc = "idle"

(***************************************************************************)
(* The worker: test_snapshots_inner inside the spawned thread              *)
(***************************************************************************)

\* The Expected-kind half of sections.into_iter().partition(..).
ExpectedOf(sections) ==
    [n \in {m \in DOMAIN sections : sections[m].kind = "Expected"} |-> sections[n]]

\* The Input-kind half, as the name -> text map of SnapshotInputs.
InputsOf(sections) ==
    [n \in {m \in DOMAIN sections : sections[m].kind = "Input"} |-> sections[n].section]

\* A variant of FormatActual that ends the result with one line feed.
FormatActualOneLineFeed(section_name, out, last_line) ==
    "[" \o section_name \o "]\n" \o out \o "\n" \o last_line

\* The actual text handed to assert_section.
FormatActual(section_name, out, last_line) ==
    "[" \o section_name \o "]\n" \o out \o "\n\n" \o last_line

\* A variant of SuccessesAfter that counts every fixture whose function returned.
SuccessesAfterAnyResult(res, n) == n + 1

\* successes after assert_section returned res.
SuccessesAfter(res, n) == IF res = "ok" THEN n + 1 ELSE n

\* A variant of ProcessedAfter that leaves the fixture uncounted.
ProcessedAfterUncounted(n) == n

\* processed += 1, after either arm of the match on what f did.
ProcessedAfter(n) == n + 1

\* A variant of OnAssertErr that propagates a file error out of the loop.
OnAssertErrPropagatingIo(res) == IF res = "io" THEN "abort" ELSE "continue"

\* A variant of OnAssertErr that leaves the loop on any error.
OnAssertErrBailing(res) == "abort"

\* The Err(e) arm after assert_section: it prints the error and goes on.
OnAssertErr(res) == "continue"

\* A variant of BatchResult that compares with every fixture enumerated.
BatchResultCountingSkipped(succ, proc, skip) ==
    IF succ # proc + skip THEN "Some tests failed" ELSE "Ok"

\* What test_snapshots_inner returns after the loop.
BatchResult(succ, proc, skip) ==
    IF succ # proc THEN "Some tests failed" ELSE "Ok"

\* The branch a fixture took, under the name the design gives it.
OutcomeOfAssert(res) == IF res = "ok" THEN "Matched" ELSE "Mismatched"

Record(fx, outcome, err) == [fx |-> fx, outcome |-> outcome, err |-> err]

\* The thread starts: pulse_start.pulse().
WStart ==
    /\ wpc = "spawned"
    /\ startPulsed' = TRUE
    /\ wpc' = "loop"
    /\ UNCHANGED <<inputVars, fs, runs, callerVars, endPulsed, idx, successes,
                   processed, skipped, section, inputs, output, wresult, summary,
                   outcomes, everMatched, parserVars>>

\* A variant of WDiscoveryError that reports the error and goes on with the
\* fixture after the one that could not be read.
WDiscoveryErrorContinuing ==
    /\ wpc = "loop"
    /\ idx <= Len(batch)
    /\ wresult' = "discovery error"
    /\ idx' = idx + 1
    /\ UNCHANGED <<inputVars, fs, runs, callerVars, startPulsed, endPulsed, wpc,
                   successes, processed, skipped, section, inputs, output,
                   summary, outcomes, everMatched, parserVars>>

\* glob yields an error (for the next fixture, or instead of ending), the
\* fixture cannot be read, or its metadata cannot be read: the ? operators
\* return the error from test_snapshots_inner.
WDiscoveryError ==
    /\ wpc = "loop"
    /\ wresult' = "discovery error"
    /\ wpc' = "pulse_end"
    /\ UNCHANGED <<inputVars, fs, runs, callerVars, startPulsed, endPulsed, idx,
                   successes, processed, skipped, section, inputs, output,
                   summary, outcomes, everMatched, parserVars>>

\* The fixture has no section named expected.<id>.
WSkip ==
    /\ wpc = "loop"
    /\ idx <= Len(batch)
    /\ ExpectedName \notin DOMAIN ExpectedOf(PoolSections[batch[idx]])
    /\ skipped' = skipped + 1
    /\ outcomes' = Append(outcomes, Record(batch[idx], "Skipped", ""))
    /\ idx' = idx + 1
    /\ UNCHANGED <<inputVars, fs, runs, callerVars, startPulsed, endPulsed, wpc,
                   successes, processed, section, inputs, output, wresult,
                   summary, everMatched, parserVars>>

\* The fixture has the section: the inputs are assembled for the call.
WParse ==
    /\ wpc = "loop"
    /\ idx <= Len(batch)
    /\ ExpectedName \in DOMAIN ExpectedOf(PoolSections[batch[idx]])
    /\ section' = ExpectedOf(PoolSections[batch[idx]])[ExpectedName]
    /\ inputs' = InputsOf(PoolSections[batch[idx]])
    /\ wpc' = "call"
    /\ UNCHANGED <<inputVars, fs, runs, callerVars, startPulsed, endPulsed, idx,
                   successes, processed, skipped, output, wresult, summary,
                   outcomes, everMatched, parserVars>>

\* f returns its text.
WCallReturn ==
    /\ wpc = "call"
    /\ RunFut(fut, inputs).kind = "ret"
    /\ output' = RunFut(fut, inputs).out
    /\ wpc' = "assert"
    /\ UNCHANGED <<inputVars, fs, runs, callerVars, startPulsed, endPulsed, idx,
                   successes, processed, skipped, section, inputs, wresult,
                   summary, outcomes, everMatched, parserVars>>

\* f panics: catch_unwind returns Err, the notice is printed.
WCallPanic ==
    /\ wpc = "call"
    /\ RunFut(fut, inputs).kind = "panic"
    /\ processed' = ProcessedAfter(processed)
    /\ outcomes' = Append(outcomes, Record(batch[idx], "Panicked", ""))
    /\ idx' = idx + 1
    /\ wpc' = "loop"
    /\ section' = NoEntry /\ inputs' = << >> /\ output' = ""
    /\ UNCHANGED <<inputVars, fs, runs, callerVars, startPulsed, endPulsed,
                   successes, skipped, wresult, summary, everMatched, parserVars>>

\* assert_section on what f returned, then the tally.
WAssert ==
    /\ wpc = "assert"
    /\ \E io \in IoOutcomes :
         LET actual == FormatActual(ExpectedName, output, section.last_line)
             r      == AssertSection(section, Fixture(idx).path, actual, fs, io)
         IN /\ fs' = r.fs
            /\ IF r.res # "ok" /\ OnAssertErr(r.res) = "abort"
               THEN /\ wresult' = "patch error"
                    /\ wpc' = "pulse_end"
                    /\ UNCHANGED <<idx, successes, processed, outcomes, everMatched>>
               ELSE /\ successes' = SuccessesAfter(r.res, successes)
                    /\ processed' = ProcessedAfter(processed)
                    /\ outcomes' = Append(outcomes,
                                          Record(batch[idx], OutcomeOfAssert(r.res),
                                                 IF r.res = "ok" THEN "" ELSE r.res))
                    /\ everMatched' = IF r.res = "ok"
                                      THEN everMatched \cup {batch[idx]}
                                      ELSE everMatched
                    /\ idx' = idx + 1
                    /\ wpc' = "loop"
                    /\ UNCHANGED wresult
    /\ section' = NoEntry /\ inputs' = << >> /\ output' = ""
    /\ UNCHANGED <<inputVars, runs, callerVars, startPulsed, endPulsed, skipped,
                   summary, parserVars>>

\* The loop is over: the summary is printed and the tally decides.
WSummary ==
    /\ wpc = "loop"
    /\ idx > Len(batch)
    /\ summary' = <<processed, processed - successes, skipped>>
    /\ wresult' = BatchResult(successes, processed, skipped)
    /\ wpc' = "pulse_end"
    /\ UNCHANGED <<inputVars, fs, runs, callerVars, startPulsed, endPulsed, idx,
                   successes, processed, skipped, section, inputs, output,
                   outcomes, everMatched, parserVars>>

\* pulse_end.pulse(), and the thread ends with its result.
WPulseEnd ==
    /\ wpc = "pulse_end"
    /\ endPulsed' = TRUE
    /\ wpc' = "done"
    /\ UNCHANGED <<inputVars, fs, runs, callerVars, startPulsed, idx, successes,
                   processed, skipped, section, inputs, output, wresult, summary,
                   outcomes, everMatched, parserVars>>

(***************************************************************************)
(* The caller: test_snapshots                                              *)
(***************************************************************************)

\* A variant of MatchWait whose Timeout arm falls through to the join.
MatchWaitIgnoringTimeout(res) == "join"

\* The match on what wait_timeout_ms returned.
MatchWait(res) == IF res = "Timeout" THEN "bail" ELSE "join"

\* std::thread::spawn.
CSpawn ==
    /\ cpc = "spawn"
    /\ wpc' = "spawned"
    /\ cpc' = "wait_start"
    /\ UNCHANGED <<inputVars, fs, runs, waitRes, callerResult, handledAtReturn,
                   startPulsed, endPulsed, idx, successes, processed, skipped, section, inputs,
                   output, wresult, summary, outcomes, everMatched, parserVars>>

\* A variant of CWaitStart that goes on without the start signal.
CWaitStartWithoutSignal ==
    /\ cpc = "wait_start"
    /\ cpc' = "wait_end"
    /\ UNCHANGED <<inputVars, fs, runs, waitRes, callerResult, handledAtReturn,
                   startPulsed, endPulsed, workerVars, everMatched, parserVars>>

\* signal_start.wait() returns.
CWaitStart ==
    /\ cpc = "wait_start"
    /\ startPulsed
    /\ cpc' = "wait_end"
    /\ UNCHANGED <<inputVars, fs, runs, waitRes, callerResult, handledAtReturn,
                   startPulsed, endPulsed, workerVars, everMatched, parserVars>>

\* signal_end.wait_timeout_ms returns because the signal was pulsed.
CWaitEndPulsed ==
    /\ cpc = "wait_end"
    /\ endPulsed
    /\ waitRes' = "Ok"
    /\ cpc' = "match"
    /\ UNCHANGED <<inputVars, fs, runs, callerResult, handledAtReturn,
                   startPulsed, endPulsed, workerVars, everMatched, parserVars>>

\* A variant of CWaitEndTimeout that waits without a timeout.
CWaitEndWithoutTimeout ==
    /\ cpc = "wait_end"
    /\ endPulsed
    /\ waitRes' = "Ok"
    /\ cpc' = "match"
    /\ UNCHANGED <<inputVars, fs, runs, callerResult, handledAtReturn,
                   startPulsed, endPulsed, workerVars, everMatched, parserVars>>

\* The timeout elapses with the signal not pulsed.
CWaitEndTimeout ==
    /\ cpc = "wait_end"
    /\ ~endPulsed
    /\ waitRes' = "Timeout"
    /\ cpc' = "match"
    /\ UNCHANGED <<inputVars, fs, runs, callerResult, handledAtReturn,
                   startPulsed, endPulsed, workerVars, everMatched, parserVars>>

\* A variant of CMatch whose Timeout arm ends the worker before it returns.
CMatchCancellingWorker ==
    /\ cpc = "match"
    /\ IF MatchWait(waitRes) = "bail"
       THEN /\ callerResult' = "Timed out"
            /\ handledAtReturn' = Len(outcomes)
            /\ cpc' = "returned"
            /\ wpc' = "done"
       ELSE UNCHANGED <<callerResult, handledAtReturn, wpc>> /\ cpc' = "join"
    /\ UNCHANGED <<inputVars, fs, runs, waitRes, startPulsed, endPulsed, idx,
                   successes, processed, skipped, section, inputs, output,
                   wresult, summary, outcomes, everMatched, parserVars>>

\* The match: bail!("Timed out") or on to the join.
CMatch ==
    /\ cpc = "match"
    /\ IF MatchWait(waitRes) = "bail"
       THEN /\ callerResult' = "Timed out"
            /\ handledAtReturn' = Len(outcomes)
            /\ cpc' = "returned"
       ELSE UNCHANGED <<callerResult, handledAtReturn>> /\ cpc' = "join"
    /\ UNCHANGED <<inputVars, fs, runs, waitRes, startPulsed, endPulsed,
                   workerVars, everMatched, parserVars>>

\* guard.join().unwrap(): the worker's result is the call's result.
CJoin ==
    /\ cpc = "join"
    /\ wpc = "done"
    /\ callerResult' = wresult
    /\ handledAtReturn' = Len(outcomes)
    /\ cpc' = "returned"
    /\ UNCHANGED <<inputVars, fs, runs, waitRes, startPulsed, endPulsed,
                   workerVars, everMatched, parserVars>>

\* The test calls test_snapshots again, on the same fixtures, once the
\* earlier call has returned and its worker has ended.
Rerun ==
    /\ cpc = "returned"
    /\ wpc = "done"
    /\ runs < MaxRuns
    /\ runs' = runs + 1
    /\ FreshRun(cpc', waitRes', callerResult', handledAtReturn', startPulsed', endPulsed', wpc', idx',
                successes', processed', skipped', section', inputs', output',
                wresult', summary', outcomes')
    /\ UNCHANGED <<inputVars, fs, everMatched, parserVars>>

Next ==
    \/ CSpawn \/ CWaitStart \/ CWaitEndPulsed \/ CWaitEndTimeout \/ CMatch \/ CJoin
    \/ WStart \/ WDiscoveryError \/ WSkip \/ WParse \/ WCallReturn \/ WCallPanic
    \/ WAssert \/ WSummary \/ WPulseEnd
    \/ Rerun

Spec == Init /\ [][Next]_vars

\* A step of the spawned thread.
WorkerStep ==
    \/ WStart \/ WDiscoveryError \/ WSkip \/ WParse \/ WCallReturn \/ WCallPanic
    \/ WAssert \/ WSummary \/ WPulseEnd

\* A step of the thread that called test_snapshots.
CallerStep ==
    \/ CSpawn \/ CWaitStart \/ CWaitEndPulsed \/ CWaitEndTimeout \/ CMatch \/ CJoin

\* One call of test_snapshots, from its entry to its return and to the end
\* of its worker.
NextCall == CallerStep \/ WorkerStep

\* One call under a scheduler that runs both threads and a clock that
\* advances: a thread that can take a step takes one, and a wait with a
\* timeout returns.  The call starts with any sibling files earlier calls
\* may have left.
FairSpec == Init /\ [][NextCall]_vars /\ WF_vars(WorkerStep) /\ WF_vars(CallerStep)

(***************************************************************************)
(* The parser on its own, on every short text                              *)
(***************************************************************************)

InitParse ==
    /\ batch = << >> /\ fut = "panic" /\ fs = << >> /\ fs0 = << >>
    /\ runs = 1 /\ everMatched = {}
    /\ FreshRun(cpc, waitRes, callerResult, handledAtReturn, startPulsed, endPulsed, wpc, idx,
                successes, processed, skipped, section, inputs, output, wresult,
                summary, outcomes)
    /\ ptext \in Texts(MaxTextLen) \cup LineTexts(MaxLines)
    /\ pclosed = << >>
    /\ ppc = "idle"

\* The loop over the lines of the text.
ParseText ==
    /\ ppc = "idle"
    /\ pclosed' = ClosedSections(ptext)
    /\ ppc' = "parsed"
    /\ UNCHANGED <<inputVars, fs, runs, callerVars, startPulsed, endPulsed,
                   workerVars, everMatched, ptext>>

NextParse == ParseText

SpecParse == InitParse /\ [][NextParse]_vars

(***************************************************************************)
(* The comparison on its own, on fixtures of every shape                   *)
(***************************************************************************)

\* The fixture the comparison is applied to.
ComparePath == [dir |-> "tests", name |-> "case.snap"]

\* Fixture texts with an Expected section for ID: the header line plain or
\* with whitespace around it, the body with or without the empty line at
\* its end, at the end of the file or before another section.
CompareTexts ==
    { header \o "\n" \o body \o tail :
        header \in {"[expected.fmt]", " [expected.fmt]", "[expected.fmt] "},
        body   \in {"", "\n", "X", "X\n", "X\n\n", "\n\n"},
        tail   \in {"", "[a]\nX\n", " [a]"} }

\* What f returned.
CompareResults == {"", "X", "X\n", "x"}

InitCompare ==
    /\ batch = << >> /\ fut = "panic"
    /\ fs \in {<< >>, [q \in {NewSnapPath(ComparePath, ExpectedName)} |-> StaleFile]}
    /\ fs0 = fs
    /\ runs = 1 /\ everMatched = {}
    /\ cpc = "spawn" /\ waitRes = "none" /\ callerResult = "none"
    /\ handledAtReturn = -1
    /\ startPulsed = FALSE /\ endPulsed = FALSE
    /\ wpc = "unborn" /\ idx = 1
    /\ successes = 0 /\ processed = 0 /\ skipped = 0
    /\ section = NoEntry /\ inputs = << >>
    /\ output \in CompareResults
    /\ wresult = "none" /\ summary = << >> /\ outcomes = << >>
    /\ ptext \in CompareTexts
    /\ pclosed = << >>
    /\ ppc = "idle"

\* The Ok(output) arm of the match on what f returned: the actual text is
\* formatted and assert_section decides.
CompareText ==
    /\ ppc = "idle"
    /\ ExpectedName \in DOMAIN ExpectedOf(Sections(ptext))
    /\ \E io \in IoOutcomes :
         LET entry  == ExpectedOf(Sections(ptext))[ExpectedName]
             actual == FormatActual(ExpectedName, output, entry.last_line)
             r      == AssertSection(entry, ComparePath, actual, fs, io)
         IN /\ section' = entry
            /\ fs' = r.fs
            /\ successes' = SuccessesAfter(r.res, successes)
            /\ processed' = ProcessedAfter(processed)
            /\ outcomes' = <<Record(0, OutcomeOfAssert(r.res),
                                    IF r.res = "ok" THEN "" ELSE r.res)>>
    /\ ppc' = "compared"
    /\ UNCHANGED <<inputVars, runs, callerVars, startPulsed, endPulsed, wpc, idx,
                   skipped, inputs, output, wresult, summary, everMatched, ptext,
                   pclosed>>

NextCompare == CompareText

SpecCompare == InitCompare /\ [][NextCompare]_vars

(***************************************************************************)
(* Properties                                                              *)
(***************************************************************************)

\* The number of handled fixtures that took the branch o.
CountOf(o) == Cardinality({i \in DOMAIN outcomes : outcomes[i].outcome = o})

\* The loop ran to its end: every enumerated fixture was handled and the
\* summary was printed.
BatchCompleted == Len(outcomes) = Len(batch) /\ summary # << >>

\* Whether some line of the text, trimmed, is the header of the section.
HasHeaderLine(text, name) ==
    \E k \in DOMAIN Lines(text) :
        Trim(LineText(text, Lines(text)[k])) = "[" \o name \o "]"

\* C1: test_snapshots returns success if and only if the completion signal
\* arrived within the timeout, the batch ran to its end and succeeded ==
\* processed then; otherwise it returns one of the failures.  The number of
\* skipped fixtures plays no part.
C1_SuccessIffCompletedAndAllSucceeded ==
    cpc = "returned" =>
        /\ callerResult = "Ok" <=>
              (waitRes = "Ok" /\ BatchCompleted /\ successes = processed)
        /\ callerResult \in {"Ok", "Some tests failed", "discovery error", "Timed out"}

\* A call that returned success on a batch with a skipped and a processed fixture.
C1_Witness ==
    /\ cpc = "returned" /\ callerResult = "Ok"
    /\ skipped > 0 /\ processed > 0

\* C2: when the timeout elapses with the completion signal not raised, the
\* call returns the Timeout failure, whatever the fixtures' outcomes are,
\* and it never joins the worker.
C2_TimeoutReturnsTimedOut ==
    /\ (cpc = "returned" /\ waitRes = "Timeout") => callerResult = "Timed out"
    /\ cpc = "join" => waitRes = "Ok"

\* A call that timed out although the worker then found every fixture Matched.
C2_Witness ==
    /\ cpc = "returned" /\ waitRes = "Timeout" /\ callerResult = "Timed out"
    /\ wpc = "done" /\ wresult = "Ok"
    /\ Len(outcomes) > 0
    /\ \A i \in DOMAIN outcomes : outcomes[i].outcome = "Matched"

\* C3: each handled fixture updates the tally once, by its outcome: Matched
\* counts in processed and succeeded, Mismatched and Panicked in processed
\* only, Skipped (no header of expected.<id>) in skipped only; so succeeded
\* <= processed, processed + skipped is the number handled, and the summary
\* reports Failed = processed - succeeded.
C3_TallyFollowsOutcomes ==
    /\ processed = CountOf("Matched") + CountOf("Mismatched") + CountOf("Panicked")
    /\ successes = CountOf("Matched")
    /\ skipped = CountOf("Skipped")
    /\ successes <= processed
    /\ processed + skipped = Len(outcomes)
    /\ \A i \in DOMAIN outcomes :
          outcomes[i].outcome = "Skipped" => ~HasHeaderLine(Pool[outcomes[i].fx].text, ExpectedName)
    /\ summary # << >> =>
          summary = <<processed, CountOf("Mismatched") + CountOf("Panicked"), skipped>>

\* A finished batch with one Matched and one Panicked fixture.
C3_Witness ==
    /\ summary # << >>
    /\ CountOf("Matched") = 1 /\ CountOf("Panicked") = 1
    /\ processed = 2 /\ successes = 1

\* Whether f panics on the inputs: it always does, it unwraps the missing
\* section a, or it unwraps the decode error of section a.
PanicsOn(f, inp) ==
    \/ f = "panic"
    \/ f \in {"upper", "trim_upper", "json"} /\ "a" \notin DOMAIN inp
    \/ f = "json" /\ "a" \in DOMAIN inp /\ ~IsJsonNumber(inp["a"])

\* C4: when f panics on a fixture, the fixture is counted in processed and
\* not in succeeded, and no file is created, overwritten or deleted.
C4_PanicCountsAsFailureWithoutPatch ==
    [][(wpc = "call" /\ PanicsOn(fut, inputs) /\ wpc' # "call") =>
          /\ processed' = processed + 1
          /\ successes' = successes
          /\ skipped' = skipped
          /\ fs' = fs
          /\ outcomes' = Append(outcomes, Record(batch[idx], "Panicked", ""))]_vars

\* A fixture without section a made f panic, and its stale sibling is still there.
C4_Witness ==
    /\ fut = "upper"
    /\ \E i \in DOMAIN outcomes :
          /\ outcomes[i].outcome = "Panicked"
          /\ ~HasHeaderLine(Pool[outcomes[i].fx].text, "a")
          /\ Pool[outcomes[i].fx].sibling \in DOMAIN fs
          /\ fs[Pool[outcomes[i].fx].sibling] = StaleFile

\* C5: once a fixture was found Matched, its sibling patch file does not
\* exist, whether or not one existed before, and no later run on the same
\* fixtures creates one.
C5_MatchedLeavesNoSibling ==
    \A fx \in everMatched : Pool[fx].sibling \notin DOMAIN fs

\* A second run found Matched again a fixture whose stale sibling the first run deleted.
C5_Witness ==
    /\ runs = 2
    /\ \E i \in DOMAIN outcomes :
          /\ outcomes[i].outcome = "Matched"
          /\ Pool[outcomes[i].fx].sibling \in DOMAIN fs0
          /\ Pool[outcomes[i].fx].sibling \notin DOMAIN fs

\* The stem of a fixture's file name: the name without ".snap".
StemOf(name) == Slice(name, 0, Len(name) - Len(".snap"))

\* <dir>/<stem>.<id>.new
SiblingByIdentifier(path) ==
    [dir |-> path.dir, name |-> StemOf(path.name) \o "." \o ID \o ".new"]

\* <dir>/<stem>.expected.<id>.new
SiblingBySectionName(path) ==
    [dir |-> path.dir, name |-> StemOf(path.name) \o ".expected." \o ID \o ".new"]

\* C6 as stated: the file written on Mismatched and deleted on Matched is
\* <dir>/<stem>.<id>.new.
C6_SiblingIsStemIdNew ==
    /\ \A q \in DOMAIN fs :
          fs[q].kind \in {"patch", "empty"} =>
              \E i \in DOMAIN batch : q = SiblingByIdentifier(Fixture(i).path)
    /\ \A i \in DOMAIN outcomes :
          (outcomes[i].outcome = "Mismatched" /\ outcomes[i].err = "failed") =>
              SiblingByIdentifier(Pool[outcomes[i].fx].path) \in DOMAIN fs

\* C6, amended: the file written on Mismatched and deleted on Matched is
\* <dir>/<stem>.expected.<id>.new: same directory and stem, the extension
\* replaced by the Expected section's whole name and ".new".
C6_SiblingIsStemExpectedIdNew ==
    /\ \A q \in DOMAIN fs :
          fs[q].kind \in {"patch", "empty"} =>
              \E i \in DOMAIN batch : q = SiblingBySectionName(Fixture(i).path)
    /\ \A i \in DOMAIN outcomes :
          LET q == SiblingBySectionName(Pool[outcomes[i].fx].path)
          IN /\ (outcomes[i].outcome = "Mismatched" /\ outcomes[i].err = "failed") =>
                    (q \in DOMAIN fs /\ fs[q].kind = "patch")
             /\ outcomes[i].outcome = "Matched" => q \notin DOMAIN fs

\* A patch was written beside a fixture whose stem holds a '.'.
C6_Witness ==
    \E q \in DOMAIN fs :
        /\ fs[q].kind = "patch"
        /\ q = [dir |-> "tests/sub", name |-> "num.v.expected.fmt.new"]
        /\ fs[q].old = "num.v.snap"

\* The batch of the one fixture [a]\nhello\n[expected.fmt]\nHELLO\n has ended.
HelloBatchEnded == batch = <<1>> /\ wpc = "done" /\ summary # << >>

\* C7 as stated: with a function returning the uppercased text of input a,
\* that batch ends with processed = 1, succeeded = 1, skipped = 0 and no
\* sibling file.
C7_HelloUppercasedMatches ==
    (HelloBatchEnded /\ fut \in {"upper", "trim_upper"}) =>
        /\ processed = 1 /\ successes = 1 /\ skipped = 0
        /\ SiblingByIdentifier(Pool[1].path) \notin DOMAIN fs
        /\ SiblingBySectionName(Pool[1].path) \notin DOMAIN fs

\* C7, amended: that batch ends with processed = 1, succeeded = 0, skipped
\* = 0, the fixture Mismatched (the actual text ends in an empty line the
\* fixture's Expected section does not have), and the sibling file holds
\* the patch unless it could not be written.
C7_HelloUppercasedMismatches ==
    (HelloBatchEnded /\ fut \in {"upper", "trim_upper"}) =>
        /\ processed = 1 /\ successes = 0 /\ skipped = 0
        /\ summary = <<1, 1, 0>>
        /\ wresult = "Some tests failed"
        /\ outcomes[1].outcome = "Mismatched"
        /\ outcomes[1].err = "failed" =>
              /\ SiblingBySectionName(Pool[1].path) \in DOMAIN fs
              /\ fs[SiblingBySectionName(Pool[1].path)].kind = "patch"

\* That batch ended with the patch written, for the function that does not trim.
C7_Witness ==
    /\ HelloBatchEnded /\ fut = "upper"
    /\ summary = <<1, 1, 0>>
    /\ SiblingBySectionName(Pool[1].path) \in DOMAIN fs
    /\ fs[SiblingBySectionName(Pool[1].path)].expected = "[expected.fmt]\nHELLO\n"
    /\ fs[SiblingBySectionName(Pool[1].path)].actual = "[expected.fmt]\n\nHELLO\n\n\n"

\* The header pattern as the design states it: trimmed, the line is '[',
\* one or more of the letters, '.', '-' and '_', and ']'.
StatedHeader(line) ==
    LET t == Trim(line)
    IN /\ Len(t) >= 3
       /\ At(t, 0) = "[" /\ At(t, Len(t) - 1) = "]"
       /\ \A k \in 1..(Len(t) - 2) : IsAlpha(At(t, k)) \/ At(t, k) \in {".", "-", "_"}

\* C8: the lines that open a section are exactly the lines of the stated
\* header pattern.
C8_HeaderIffStatedPattern ==
    ppc = "parsed" =>
        {pclosed[k].from : k \in DOMAIN pclosed} =
        {Lines(ptext)[k].off : k \in {j \in DOMAIN Lines(ptext) :
                                         StatedHeader(LineText(ptext, Lines(ptext)[j]))}}

\* C9: a Mismatched or Panicked fixture never ends the batch: the handled
\* fixtures are the enumerated ones in order, each with one of the four
\* outcomes, and when the worker has ended, either discovery failed or
\* every enumerated fixture was handled and the summary printed.
C9_FixtureFailureNeverAbortsBatch ==
    /\ Len(outcomes) <= Len(batch)
    /\ \A i \in DOMAIN outcomes :
          /\ outcomes[i].fx = batch[i]
          /\ outcomes[i].outcome \in {"Skipped", "Matched", "Mismatched", "Panicked"}
    /\ wpc \in {"pulse_end", "done"} =>
          \/ wresult = "discovery error"
          \/ (Len(outcomes) = Len(batch) /\ summary # << >>)

\* A batch whose first fixture was Mismatched and whose second was still
\* handled, with the summary printed.
C9_Witness ==
    /\ wpc = "done" /\ summary # << >>
    /\ Len(outcomes) = 2
    /\ outcomes[1].outcome = "Mismatched"
    /\ outcomes[2].outcome = "Matched"

\* C10 as stated: a failure to write or delete the sibling file ends the
\* batch with an error: no later fixture is handled, no summary is
\* printed, and the fixture is not tallied.
C10_PatchIoFailureAbortsBatch ==
    \A i \in DOMAIN outcomes :
        outcomes[i].err = "io" =>
            /\ i = Len(outcomes)
            /\ wpc \in {"pulse_end", "done"}
            /\ wresult \notin {"none", "Ok"}
            /\ summary = << >>
            /\ processed < CountOf("Matched") + CountOf("Mismatched") + CountOf("Panicked")

\* C10, amended: a failure to write or delete the sibling file is printed
\* and tallied as that fixture's failure (in processed, not in succeeded);
\* the batch goes on, and unless discovery fails it handles every fixture,
\* prints the summary and returns "Some tests failed".
C10_PatchIoFailureIsFixtureFailure ==
    /\ \A i \in DOMAIN outcomes :
          outcomes[i].err = "io" => outcomes[i].outcome = "Mismatched"
    /\ processed - successes >= Cardinality({i \in DOMAIN outcomes : outcomes[i].err = "io"})
    /\ wpc \in {"pulse_end", "done"} =>
          /\ wresult \in {"Ok", "Some tests failed", "discovery error"}
          /\ (wresult # "discovery error" /\ \E i \in DOMAIN outcomes : outcomes[i].err = "io") =>
                /\ Len(outcomes) = Len(batch)
                /\ summary # << >>
                /\ wresult = "Some tests failed"

\* The stale sibling of a fixture whose text matched could not be deleted:
\* the fixture counts as failed and the next fixture was still handled.
C10_Witness ==
    /\ wpc = "done" /\ wresult = "Some tests failed"
    /\ Len(outcomes) = 2
    /\ outcomes[1].err = "io"
    /\ outcomes[1].fx = 4 /\ fut = "trim_upper"
    /\ fs[Pool[4].sibling] = StaleFile
    /\ outcomes[2].outcome = "Mismatched" /\ outcomes[2].err = "failed"

(***************************************************************************)
(* C11                                                                     *)
(***************************************************************************)

\* What the worker has done to the fixtures and the files.
workDone == <<fs, idx, successes, processed, skipped, section, inputs, output,
              summary, outcomes>>

\* C11: once a fixture could not be enumerated or read, the batch is over:
\* the worker is on its way out with no summary printed, from then on it
\* handles no fixture, calls f no more and writes or deletes no sibling, and
\* a caller that received the worker's result received the failure, whatever
\* the tally was.
C11_DiscoveryErrorAbortsBatch ==
    /\ [](wresult = "discovery error" =>
            /\ wpc \in {"pulse_end", "done"}
            /\ summary = << >>
            /\ (cpc = "returned" /\ waitRes = "Ok" =>
                    callerResult = "discovery error"))
    /\ [][(wresult = "discovery error" /\ wresult' = "discovery error") =>
            UNCHANGED workDone]_vars

\* A call returned the discovery error after one fixture succeeded and none
\* failed, with a fixture of the batch never handled.
C11_Witness ==
    /\ cpc = "returned"
    /\ callerResult = "discovery error"
    /\ processed >= 1
    /\ successes = processed
    /\ Len(outcomes) < Len(batch)
    /\ summary = << >>

(***************************************************************************)
(* C12                                                                     *)
(***************************************************************************)

\* The call returned the Timeout failure.
ReturnedTimeout == cpc = "returned" /\ callerResult = "Timed out"

\* C12: the caller's steps from the wait to the return leave the worker and
\* the files as they are; after the Timeout failure was returned a worker
\* that has not ended and is not inside a call of f that never returns can
\* take its next step; and nothing the worker does changes what the call
\* returned.
C12_WorkerOutlivesTimeout ==
    /\ [](ReturnedTimeout /\ wpc # "done" /\ ~(wpc = "call" /\ fut = "hang") =>
            ENABLED WorkerStep)
    /\ [][(cpc \in {"wait_end", "match"} /\ cpc' # cpc) =>
            UNCHANGED <<workerVars, fs>>]_vars
    /\ [][(cpc = "returned" /\ runs' = runs) =>
            (cpc' = "returned" /\ callerResult' = callerResult)]_vars

\* The call returned the Timeout failure; after that the worker handled a
\* further fixture, wrote its patch, and ended with the batch's own failure.
C12_Witness ==
    /\ ReturnedTimeout
    /\ runs = 1
    /\ wpc = "done" /\ wresult = "Some tests failed"
    /\ handledAtReturn < Len(outcomes)
    /\ LET last == outcomes[Len(outcomes)]
       IN /\ last.outcome = "Mismatched"
          /\ Pool[last.fx].sibling \notin DOMAIN fs0
          /\ Pool[last.fx].sibling \in DOMAIN fs

(***************************************************************************)
(* C13                                                                     *)
(***************************************************************************)

\* The files f and g agree on every path but q.
SameButAt(f, g, q) ==
    \A p \in (DOMAIN f \cup DOMAIN g) \ {q} :
        /\ p \in DOMAIN f <=> p \in DOMAIN g
        /\ p \in DOMAIN f => f[p] = g[p]

\* C13: a call has one worker, spawned once; the worker has a fixture in
\* hand only between its parse and the end of its comparison, that fixture
\* is the one at the loop's position, and every fixture before that position
\* has been handled to its end; the position moves one fixture at a time,
\* with nothing left in hand; and a step that changes the files is the
\* comparison of the fixture in hand and touches that fixture's sibling only.
C13_OneFixtureAtATime ==
    /\ [](/\ wpc = "unborn" <=> cpc = "spawn"
          /\ wpc \in {"call", "assert"} =>
                /\ idx <= Len(batch)
                /\ section = ExpectedOf(PoolSections[batch[idx]])[ExpectedName]
          /\ wpc \notin {"call", "assert"} =>
                section = NoEntry /\ inputs = << >> /\ output = ""
          /\ Len(outcomes) = idx - 1)
    /\ [][(idx' # idx /\ runs' = runs) =>
            /\ idx' = idx + 1
            /\ wpc' = "loop"
            /\ section' = NoEntry /\ inputs' = << >> /\ output' = ""]_vars
    /\ [][fs' # fs =>
            /\ wpc = "assert"
            /\ SameButAt(fs, fs', Fixture(idx).sibling)]_vars

\* The second fixture of a batch is in the comparison, in a directory of its
\* own, after the first one's patch was written.
C13_Witness ==
    /\ wpc = "assert" /\ idx = 2
    /\ Fixture(2).path.dir # Fixture(1).path.dir
    /\ Fixture(1).sibling \in DOMAIN fs
    /\ Fixture(1).sibling \notin DOMAIN fs0
    /\ outcomes[1].outcome = "Mismatched"

(***************************************************************************)
(* C14                                                                     *)
(***************************************************************************)

\* C14: while the start signal is not raised the worker has touched no
\* fixture; the completion signal is raised by the worker's last step, after
\* the batch ended with a result; the caller is in or past the bounded wait
\* only with the start signal raised; and a call whose wait ended with the
\* completion signal returns the worker's result.
C14_SignalsOrderTheCall ==
    /\ [](/\ ~startPulsed =>
                /\ wpc \in {"unborn", "spawned"}
                /\ idx = 1 /\ outcomes = << >>
                /\ runs = 1 => fs = fs0
          /\ endPulsed => wpc = "done" /\ wresult # "none"
          /\ cpc \in {"wait_end", "match", "join", "returned"} => startPulsed
          /\ waitRes = "Ok" => endPulsed
          /\ cpc = "returned" /\ waitRes = "Ok" => callerResult = wresult)
    /\ [][(endPulsed' /\ ~endPulsed) =>
            wpc = "pulse_end" /\ wresult # "none" /\ wresult' = wresult]_vars

\* The completion signal arrived in time and the call returned the batch's
\* failure.
C14_Witness ==
    /\ cpc = "returned" /\ waitRes = "Ok"
    /\ startPulsed /\ endPulsed
    /\ callerResult = "Some tests failed"
    /\ wresult = "Some tests failed"

(***************************************************************************)
(* C15                                                                     *)
(***************************************************************************)

\* C15: with both threads scheduled and the clock advancing, the caller
\* leaves the wait for the start signal, leaves the wait for the completion
\* signal, and every call returns, whatever f does.
C15_EveryCallReturns ==
    /\ (cpc = "wait_start") ~> (cpc = "wait_end")
    /\ (cpc = "wait_end") ~> (cpc = "match")
    /\ (cpc # "returned") ~> (cpc = "returned")

\* A call returned while its worker is inside a call of f that never
\* returns.
C15_Witness ==
    /\ cpc = "returned"
    /\ fut = "hang" /\ wpc = "call"
    /\ RunFut(fut, inputs).kind = "hang"

(***************************************************************************)
(* C16                                                                     *)
(***************************************************************************)

\* The comparison ran on what f returned.
Compared == ppc = "compared"

\* The Expected section's stored text followed by its last line is
\* byte-identical to the header of ID, a line feed, the result, two line
\* feeds and that last line.
StoredIsResult ==
    section.section \o section.last_line =
        "[" \o "expected." \o ID \o "]" \o "\n" \o output \o "\n\n" \o section.last_line

\* The sibling patch file of the compared fixture.
CompareSibling == [dir |-> "tests", name |-> "case.expected.fmt.new"]

\* The header line of the Expected section carries whitespace around the
\* bracketed name.
HeaderHasWhitespace == ~StartsWith(section.section, "[expected.fmt]\n")

\* The Expected section's text ends with an empty line.
EndsInEmptyLine ==
    /\ Len(section.section) >= 2
    /\ Slice(section.section, Len(section.section) - 2, Len(section.section)) = "\n\n"

\* C16 as stated: after a normal return the outcome is Matched exactly when
\* the stored text with its last line is byte-identical to the formatted
\* result, and Mismatched otherwise.
C16_MatchedIffIdentical ==
    Compared =>
        /\ outcomes[1].outcome = "Matched" <=> StoredIsResult
        /\ outcomes[1].outcome = "Mismatched" <=> ~StoredIsResult

\* C16, amended: after a normal return the outcome is Matched exactly when
\* the two texts are byte-identical and no stale sibling is left because its
\* deletion failed; identical texts whose stale sibling could not be deleted
\* are tallied as a failure with the sibling as it was; different texts are
\* Mismatched; and a section whose header line carries whitespace or whose
\* text does not end in an empty line is never Matched.
C16_MatchedIffIdenticalAndSiblingGone ==
    Compared =>
        /\ outcomes[1].outcome = "Matched" <=>
                (StoredIsResult /\ CompareSibling \notin DOMAIN fs)
        /\ outcomes[1].outcome \in {"Matched", "Mismatched"}
        /\ ~StoredIsResult => outcomes[1].err \in {"failed", "io"}
        /\ (StoredIsResult /\ outcomes[1].outcome = "Mismatched") =>
                /\ outcomes[1].err = "io"
                /\ CompareSibling \in DOMAIN fs0
                /\ fs = fs0
        /\ (HeaderHasWhitespace \/ ~EndsInEmptyLine) => outcomes[1].outcome # "Matched"
        /\ successes = IF outcomes[1].outcome = "Matched" THEN 1 ELSE 0

\* A section followed by another header was Matched and its stale sibling
\* deleted.
C16_Witness ==
    /\ Compared
    /\ outcomes[1].outcome = "Matched"
    /\ section.last_line # ""
    /\ CompareSibling \in DOMAIN fs0
    /\ fs = << >>

(***************************************************************************)
(* C17                                                                     *)
(***************************************************************************)

\* The parser ran on the text.
Parsed == ppc = "parsed"

\* The lines of the text the code takes for headers, as positions in
\* Lines(ptext).
HeaderLines ==
    {k \in DOMAIN Lines(ptext) : SectionRegexMatches(LineText(ptext, Lines(ptext)[k]))}

\* Every header of the text is one by the stated pattern and by the code's.
HeadersWellFormed ==
    \A k \in DOMAIN Lines(ptext) :
        StatedHeader(LineText(ptext, Lines(ptext)[k])) <=> k \in HeaderLines

\* The sections whose range, from the header's start to the section's end,
\* holds the byte at offset b.
Covering(b) == {k \in DOMAIN pclosed : pclosed[k].from <= b /\ b < pclosed[k].to}

\* The offset of the first header line.
FirstHeaderOffset ==
    Lines(ptext)[CHOOSE k \in HeaderLines : \A j \in HeaderLines : k <= j].off

\* C17 as stated: in a text with at least one header, every byte of the
\* text lies in the range of exactly one section.
C17_SectionsPartitionWholeText ==
    (Parsed /\ HeadersWellFormed /\ HeaderLines # {}) =>
        \A b \in 0..(Len(ptext) - 1) : Cardinality(Covering(b)) = 1

\* C17, amended: the parser closes one section for every header line, the
\* section starting at the first byte of that line; no range is empty or
\* leaves the text; every byte from the first header line on lies in the
\* range of exactly one of these sections, and every byte before it in none.
C17_SectionsPartitionFromFirstHeader ==
    (Parsed /\ HeaderLines # {}) =>
        /\ {pclosed[k].from : k \in DOMAIN pclosed} =
                {Lines(ptext)[k].off : k \in HeaderLines}
        /\ Len(pclosed) = Cardinality(HeaderLines)
        /\ \A k \in DOMAIN pclosed :
                0 <= pclosed[k].from /\ pclosed[k].from < pclosed[k].to
                /\ pclosed[k].to <= Len(ptext)
        /\ \A b \in 0..(Len(ptext) - 1) :
                Cardinality(Covering(b)) = IF b >= FirstHeaderOffset THEN 1 ELSE 0

\* A text of two sections of one name, with a line before the first header
\* and content after the last.
C17_Witness ==
    /\ Parsed
    /\ Len(pclosed) = 2
    /\ pclosed[1].from > 0
    /\ pclosed[1].name = pclosed[2].name
    /\ pclosed[2].to > pclosed[2].from_inner + 1

(***************************************************************************)
(* C18                                                                     *)
(***************************************************************************)

\* The k-th header line of the text, as an element of Lines(ptext).
NthHeader(k) ==
    Lines(ptext)[CHOOSE j \in HeaderLines :
                    Cardinality({i \in HeaderLines : i < j}) = k - 1]

\* The entry made of the k-th section the parser closed.
ParsedEntry(k) == IntoEntry(pclosed[k], ptext)

\* C18: the last line of a section that another section follows is the text
\* of that section's header line as it stands in the fixture, the span that
\* starts at the section's own end; the last line of the last section is
\* empty, and that section ends where the text ends.
C18_LastLineIsNextHeader ==
    Parsed =>
        \A k \in DOMAIN pclosed :
            IF k < Len(pclosed)
            THEN /\ ParsedEntry(k).last_line = LineText(ptext, NthHeader(k + 1))
                 /\ NthHeader(k + 1).off = pclosed[k].to
                 /\ pclosed[k + 1].from = pclosed[k].to
            ELSE /\ ParsedEntry(k).last_line = ""
                 /\ pclosed[k].to = Len(ptext)

\* A section followed by a header line with whitespace around its brackets,
\* kept as it stands, and a last section with content.
C18_Witness ==
    /\ Parsed
    /\ Len(pclosed) = 2
    /\ ParsedEntry(1).last_line = " [b] "
    /\ pclosed[2].name = "b"
    /\ ParsedEntry(2).last_line = ""
    /\ pclosed[2].to > pclosed[2].from_inner

(***************************************************************************)
(* C19                                                                     *)
(***************************************************************************)

\* The offset of the first byte of the line after the k-th header line, or
\* the length of the text when the header line is the last one.
AfterHeaderLine(k) ==
    LET next == NthHeader(k).off + NthHeader(k).len + 1
    IN IF next > Len(ptext) THEN Len(ptext) ELSE next

\* C19: the text of an Input section runs from the first byte of the line
\* after its header line to the start of the next header, and SnapshotInputs
\* holds no section whose name starts with "expected.".
C19_InputTextStartsAfterHeaderLine ==
    Parsed =>
        /\ \A k \in DOMAIN pclosed :
              ParsedEntry(k).kind = "Input" =>
                  ParsedEntry(k).section = Slice(ptext, AfterHeaderLine(k), pclosed[k].to)
        /\ \A n \in DOMAIN InputsOf(Sections(ptext)) : ~StartsWith(n, "expected.")

(***************************************************************************)
(* C20                                                                     *)
(***************************************************************************)

\* The 1-based number of the k-th header line among the lines of the text.
HeaderLineNumber(k) ==
    CHOOSE j \in HeaderLines : Cardinality({i \in HeaderLines : i < j}) = k - 1

\* C20: the line recorded for a section is the 1-based number of its header
\* line.
C20_LineIsHeaderLineNumber ==
    Parsed => \A k \in DOMAIN pclosed : pclosed[k].line = HeaderLineNumber(k)

====
